---------------------------- MODULE Spec2Model ----------------------------
(***************************************************************************)
(* A model of the Verex pattern builder (src/src/verex/mod.rs).            *)
(*                                                                         *)
(* Text is modelled as a sequence of one-character strings, so that the    *)
(* builder's concatenations and the Escaper's substitutions are computed   *)
(* character by character.  A Rust raw string r"\d" is the two characters  *)
(* <<"\\", "d">>.                                                          *)
(***************************************************************************)
EXTENDS Naturals, Sequences, FiniteSets

VARIABLES
    builders,   \* builder name -> the Verex struct {string, modifiers, source}
    hist,       \* the calls made so far, in call order (history)
    snaps,      \* snaps[i]: the value of builders right before call hist[i]
    result,     \* the value returned by the last query operation
    escIn,      \* escape(): the argument `string`
    escCur,     \* escape(): the local `result`
    escPass,    \* escape(): how many pairs of ESCAPE_PAIRS the loop has applied
    chain       \* the alternatives handed to find / or_find, in call order (history)

vars == <<builders, hist, snaps, result, escIn, escCur, escPass, chain>>

---------------------------------------------------------------------------
(* Bounds of the model.                                                    *)

\* the number of builder calls in one run
MaxOps == 2
\* the length of the strings handed to escape() in SpecEscape
MaxLen == 2
\* the number of alternatives in one chain of SpecOr
MaxChain == 3
\* the number of calls in one session of SpecCompile
MaxSession == 4

---------------------------------------------------------------------------
(* Modifiers: the bitflags of mod.rs lines 6-18.                           *)

MULTI_LINE == 1
CASE_INSENSITIVE == 2

\* Modifiers::empty(), through Modifiers::new()
Modifiers_new == 0

\* bitflags: contains / insert / remove of a one-bit flag on a u8
contains(m, flag) == (m \div flag) % 2 = 1
insert(m, flag) == IF contains(m, flag) THEN m ELSE (m + flag) % 256
remove(m, flag) == IF contains(m, flag) THEN m - flag ELSE m

---------------------------------------------------------------------------
(* The Escaper: ESCAPE_PAIRS and escape(), mod.rs lines 42-66.             *)

\* A replacement template "\\$name": a backslash, then the text of the
\* named group.  GROUP stands for the reference $name.
GROUP == "$group"

EscapePair(c) == [char |-> c, template |-> <<"\\", GROUP>>]

ESCAPE_PAIRS_backslash_last ==
    << EscapePair("("), EscapePair(")"), EscapePair("["), EscapePair("]"),
       EscapePair("{"), EscapePair("}"), EscapePair("."), EscapePair("+"),
       EscapePair("*"), EscapePair("?"), EscapePair("^"), EscapePair("$"),
       EscapePair("|"), EscapePair("\\") >>

\* The 14 pairs in the order of the array: each pattern (?P<name>\c) matches
\* the one character c.
ESCAPE_PAIRS ==
    << EscapePair("\\"), EscapePair("("), EscapePair(")"), EscapePair("["),
       EscapePair("]"), EscapePair("{"), EscapePair("}"), EscapePair("."),
       EscapePair("+"), EscapePair("*"), EscapePair("?"), EscapePair("^"),
       EscapePair("$"), EscapePair("|") >>

\* Captures::expand: the template with the group reference replaced by the
\* matched text
RECURSIVE expand(_, _)
expand(template, matched) ==
    IF template = <<>> THEN <<>>
    ELSE (IF Head(template) = GROUP THEN matched ELSE <<Head(template)>>)
         \o expand(Tail(template), matched)

\* Regex::replace_all for a pattern matching the single character pair.char:
\* every match, left to right, is replaced by the expanded template; the
\* text between the matches is copied.
RECURSIVE replace_all(_, _)
replace_all(pair, text) ==
    IF text = <<>> THEN <<>>
    ELSE (IF Head(text) = pair.char
             THEN expand(pair.template, <<Head(text)>>)
             ELSE <<Head(text)>>)
         \o replace_all(pair, Tail(text))

\* the loop of escape() from pair number `from` on
RECURSIVE escape_from(_, _)
escape_from(from, res) ==
    IF from > Len(ESCAPE_PAIRS) THEN res
    ELSE escape_from(from + 1, replace_all(ESCAPE_PAIRS[from], res))

escape(string) == escape_from(1, string)

---------------------------------------------------------------------------
(* The builder: struct Verex and its methods, mod.rs lines 68-433.  Each   *)
(* method is an operator from the struct before the call to the struct     *)
(* after it.                                                               *)

add_and_update(v, value) ==
    LET s5 == <<"(", "?">>
                 \o (IF contains(v.modifiers, CASE_INSENSITIVE) THEN <<"i">> ELSE <<>>)
                 \o (IF contains(v.modifiers, MULTI_LINE) THEN <<"m">> ELSE <<>>)
                 \o <<":">> \o v.string \o value
    IN  [v EXCEPT !.string = @ \o value, !.source = Append(s5, ")")]

add_in_front(v, value) == [v EXCEPT !.string = value \o @]

add(v, value) == [v EXCEPT !.string = @ \o value]

update_source_m_then_i(v) ==
    LET s1 == <<"(", "?">>
        s2 == IF contains(v.modifiers, MULTI_LINE) THEN Append(s1, "m") ELSE s1
        s3 == IF contains(v.modifiers, CASE_INSENSITIVE) THEN Append(s2, "i") ELSE s2
    IN  [v EXCEPT !.source = Append(Append(s3, ":") \o v.string, ")")]

update_source_with_modifiers(v) ==
    LET s0 == <<>>                                   \* source.clear()
        s1 == s0 \o <<"(", "?">>
        s2 == IF contains(v.modifiers, CASE_INSENSITIVE) THEN Append(s1, "i") ELSE s1
        s3 == IF contains(v.modifiers, MULTI_LINE) THEN Append(s2, "m") ELSE s2
        s4 == Append(s3, ":")
        s5 == s4 \o v.string
    IN  [v EXCEPT !.source = Append(s5, ")")]

from_string(string) ==
    update_source_with_modifiers(
        [string |-> string, modifiers |-> Modifiers_new, source |-> <<>>])

new == from_string(<<>>)

from_str(string) == from_string(string)

source(v) == v.source
raw_fragment(v) == v.string

raw(v) == source(v)
value(v) == source(v)

open_class(v) == add(v, <<"[">>)
close_class(v) == add(v, <<"]">>)
open_group(v) == add(v, <<"(", "?", ":">>)
open_capturing_group(v) == add(v, <<"(">>)
close_group(v) == add(v, <<")">>)
open_quantifier(v) == add(v, <<"{">>)
close_quantifier(v) == add(v, <<"}">>)

any(v, chars) ==
    update_source_with_modifiers(close_class(add(open_class(v), escape(chars))))

any_of(v, chars) == any(v, chars)

anything(v) == update_source_with_modifiers(add(v, <<"(", ".", "*", ")">>))

anything_but(v, chars) ==
    update_source_with_modifiers(
        close_group(add(close_class(add(add(open_class(open_group(v)),
            <<"^">>), escape(chars))), <<"*">>)))

capture_value(v, val) ==
    update_source_with_modifiers(close_group(add(open_capturing_group(v), val)))

capture(v, val) == capture_value(v, escape(val))

digit(v) == update_source_with_modifiers(add(v, <<"\\", "d">>))

end_of_line(v) == update_source_with_modifiers(add(v, <<"$">>))

find_value(v, val) ==
    update_source_with_modifiers(close_group(add(open_group(v), val)))

find_unescaped(v, val) == find_value(v, val)

find(v, val) == find_value(v, escape(val))

maybe_value(v, val) ==
    update_source_with_modifiers(
        add(close_group(add(open_group(v), val)), <<"?">>))

maybe(v, val) == maybe_value(v, escape(val))

or(v) == update_source_with_modifiers(add(v, <<"|">>))

or_find_then_or(v, val) == or(find(v, val))

or_find(v, val) == find(or(v), val)

then(v, val) == find(v, val)


---------------------------------------------------------------------------
(* Expression and match_expr!, mod.rs lines 20-40.  An Expression holds a  *)
(* reference: to a string, to another builder (named by its key in         *)
(* `builders`) or to a compiled Regex.  The unused fields are blank.       *)

NoRegex == [pattern |-> <<>>]

E_String(x) == [kind |-> "String", str |-> x, verex |-> "", regex |-> NoRegex]
E_Verex(b) == [kind |-> "Verex", str |-> <<>>, verex |-> b, regex |-> NoRegex]
E_Regex(r) == [kind |-> "Regex", str |-> <<>>, verex |-> "", regex |-> r]

\* Regex::as_str: the text the Regex was compiled from
as_str(r) == r.pattern

match_expr_fragment(bs, e) ==
    CASE e.kind = "String" -> e.str
      [] e.kind = "Verex"  -> bs[e.verex].string
      [] e.kind = "Regex"  -> as_str(e.regex)

\* the text match_expr! hands to $method
match_expr(bs, e) ==
    CASE e.kind = "String" -> e.str
      [] e.kind = "Verex"  -> source(bs[e.verex])
      [] e.kind = "Regex"  -> as_str(e.regex)

capture_expr(bs, v, e) == capture_value(v, match_expr(bs, e))
find_expr(bs, v, e) == find_value(v, match_expr(bs, e))
maybe_expr(bs, v, e) == maybe_value(v, match_expr(bs, e))

or_find_expr(bs, v, e) == find_expr(bs, or(v), e)

line_break_flat(bs, v) ==
    update_source_with_modifiers(
        close_group(add(add(add(open_group(v), <<"\\", "n">>), <<"|">>),
                        <<"\\", "r", "\\", "n">>)))

line_break(bs, v) ==
    update_source_with_modifiers(
        close_group(
            or_find_expr(bs, add(open_group(v), <<"\\", "n">>),
                         E_String(<<"\\", "r", "\\", "n">>))))

br(bs, v) == line_break(bs, v)

\* the loop of range(): from, '-', to for each tuple, in order
RECURSIVE range_body(_)
range_body(pairs) ==
    IF pairs = <<>> THEN <<>>
    ELSE <<Head(pairs)[1], "-", Head(pairs)[2]>> \o range_body(Tail(pairs))

range(v, pairs) ==
    update_source_with_modifiers(
        add(v, Append(<<"[">> \o range_body(pairs), "]")))

\* u32::to_string: the decimal digits, most significant first
Digit(d) == <<"0", "1", "2", "3", "4", "5", "6", "7", "8", "9">>[d + 1]

RECURSIVE to_string(_)
to_string(n) ==
    IF n < 10 THEN <<Digit(n)>> ELSE Append(to_string(n \div 10), Digit(n % 10))

repeat_n(v, n) ==
    update_source_with_modifiers(
        close_quantifier(add(open_quantifier(v), to_string(n))))

repeat_n_to_m(v, n, m) ==
    update_source_with_modifiers(
        close_quantifier(add(add(add(open_quantifier(v), to_string(n)),
                                 <<",">>), to_string(m))))

repeat_once_or_more(v) == update_source_with_modifiers(add(v, <<"+">>))

repeat_previous(v, n) == repeat_n(v, n)

repeat_zero_or_more(v) == update_source_with_modifiers(add(v, <<"*">>))

search_one_line_straight(v, enable) ==
    update_source_with_modifiers(
        [v EXCEPT !.modifiers = IF enable THEN insert(@, MULTI_LINE)
                                ELSE remove(@, MULTI_LINE)])

search_one_line(v, enable) ==
    update_source_with_modifiers(
        [v EXCEPT !.modifiers = IF enable THEN remove(@, MULTI_LINE)
                                ELSE insert(@, MULTI_LINE)])

something(v) == update_source_with_modifiers(add(v, <<"(", ".", "+", ")">>))

something_but(v, chars) ==
    update_source_with_modifiers(
        close_group(add(close_class(add(add(open_class(open_group(v)),
            <<"^">>), escape(chars))), <<"+">>)))

start_of_line(v) == update_source_with_modifiers(add(v, <<"^">>))

tab(v) == update_source_with_modifiers(add(v, <<"\\", "t">>))

with_any_case_sticky(v, enable) ==
    update_source_with_modifiers(
        [v EXCEPT !.modifiers = IF enable THEN insert(@, CASE_INSENSITIVE)
                                ELSE @])

with_any_case(v, enable) ==
    update_source_with_modifiers(
        [v EXCEPT !.modifiers = IF enable THEN insert(@, CASE_INSENSITIVE)
                                ELSE remove(@, CASE_INSENSITIVE)])

word(bs, v) == find_expr(bs, v, E_String(<<"\\", "w", "+">>))

---------------------------------------------------------------------------
(* The regex engine behind compile() and replace(), mod.rs lines 123-126   *)
(* and 366-370.  The engine is the `regex` crate; the model covers the part *)
(* of its dialect the properties below read:                               *)
(*   - a literal pattern: plain characters, escaped metacharacters and     *)
(*     non-empty groups around them, which matches one fixed text;         *)
(*   - the contents of a bracketed character class;                        *)
(*   - a pattern whose groups are unbalanced, which the engine rejects.    *)
(* Every other pattern is outside the model: what the engine makes of it   *)
(* is recorded as "Unmodelled".                                            *)

MetaChars == {"\\", "(", ")", "[", "]", "{", "}", ".", "+", "*", "?", "^", "$", "|"}

\* Reads a literal pattern: an escaped metacharacter and a character that is
\* no metacharacter stand for themselves, "(?:" and "(" open a group, ")"
\* closes one.  `fresh` says that nothing has been read yet in the innermost
\* group.  [ok |-> FALSE] when the pattern is not a literal pattern: another
\* construct, an empty or an unbalanced group, no text at all.
RECURSIVE literal_text(_, _, _, _)
literal_text(p, depth, fresh, acc) ==
    IF p = <<>>
    THEN [ok |-> depth = 0 /\ ~fresh, text |-> acc]
    ELSE IF Head(p) = "\\"
    THEN IF Len(p) >= 2 /\ p[2] \in MetaChars
         THEN literal_text(SubSeq(p, 3, Len(p)), depth, FALSE, Append(acc, p[2]))
         ELSE [ok |-> FALSE, text |-> acc]
    ELSE IF Len(p) >= 3 /\ SubSeq(p, 1, 3) = <<"(", "?", ":">>
    THEN literal_text(SubSeq(p, 4, Len(p)), depth + 1, TRUE, acc)
    ELSE IF Head(p) = "(" /\ (Len(p) < 2 \/ p[2] # "?")
    THEN literal_text(Tail(p), depth + 1, TRUE, acc)
    ELSE IF Head(p) = ")"
    THEN IF depth > 0 /\ ~fresh
         THEN literal_text(Tail(p), depth - 1, FALSE, acc)
         ELSE [ok |-> FALSE, text |-> acc]
    ELSE IF Head(p) \notin MetaChars
    THEN literal_text(Tail(p), depth, FALSE, Append(acc, Head(p)))
    ELSE [ok |-> FALSE, text |-> acc]

\* the flag letters of an effective source "(?" flags ":" ... ")"
flag_letters(src) ==
    IF src[3] = ":" THEN <<>>
    ELSE IF src[4] = ":" THEN <<src[3]>>
    ELSE <<src[3], src[4]>>

\* the text between the flag group's ":" and its ")"
flag_body(src) == SubSeq(src, Len(flag_letters(src)) + 4, Len(src) - 1)

\* Whether the groups of pattern p are unbalanced, so that the engine rejects
\* it whatever else it holds: a ")" that closes no group, or a group still
\* open at the end.  A backslash takes the next character with it.  From a
\* bare bracket on the parentheses may belong to a character class: the
\* pattern is not judged (FALSE).
RECURSIVE group_error(_, _)
group_error(p, depth) ==
    IF p = <<>> THEN depth > 0
    ELSE IF Head(p) = "\\"
    THEN Len(p) >= 2 /\ group_error(SubSeq(p, 3, Len(p)), depth)
    ELSE IF Head(p) \in {"[", "]"}
    THEN FALSE
    ELSE IF Head(p) = "("
    THEN group_error(Tail(p), depth + 1)
    ELSE IF Head(p) = ")"
    THEN depth = 0 \/ group_error(Tail(p), depth - 1)
    ELSE group_error(Tail(p), depth)

\* no Regex and no Error
NoError == [kind |-> "None", pattern |-> <<>>, literal |-> <<>>, icase |-> FALSE]

\* Regex::new on an effective source: a Result<Regex, Error>.  For a literal
\* pattern Ok with the Regex: the text it was compiled from, the fixed text
\* it matches and whether the match ignores case.  For a source whose groups
\* are unbalanced Err with the Error, which names the pattern it rejects.
Regex_new(src) ==
    LET lit == literal_text(flag_body(src), 0, TRUE, <<>>)
    IN  IF lit.ok
        THEN [kind |-> "Ok", pattern |-> src, literal |-> lit.text,
              icase |-> \E k \in 1..Len(flag_letters(src)) : flag_letters(src)[k] = "i"]
        ELSE IF group_error(src, 0)
        THEN [kind |-> "Err", pattern |-> src, literal |-> <<>>, icase |-> FALSE]
        ELSE [kind |-> "Unmodelled", pattern |-> src, literal |-> <<>>, icase |-> FALSE]

\* The code point of a character (the characters of the model's inputs).
code_point(c) ==
    CASE c = "-" -> 45 [] c = "." -> 46 [] c = "A" -> 65 [] c = "R" -> 82
      [] c = "Z" -> 90 [] c = "\\" -> 92 [] c = "a" -> 97 [] c = "b" -> 98
      [] c = "c" -> 99 [] c = "r" -> 114 [] c = "z" -> 122

ClassChars == {"-", ".", "A", "R", "Z", "\\", "a", "b", "c", "r", "z"}

\* The items between the brackets of a character class, as the engine reads
\* them: an escaped metacharacter is that character, a bare '-' is marked as
\* a possible range sign, any other character is itself.  A bare bracket or
\* another escape is outside the model.
RECURSIVE class_items(_, _)
class_items(p, acc) ==
    IF p = <<>> THEN [ok |-> TRUE, items |-> acc]
    ELSE IF Head(p) = "\\"
    THEN IF Len(p) >= 2 /\ p[2] \in MetaChars
         THEN class_items(SubSeq(p, 3, Len(p)), Append(acc, [c |-> p[2], dash |-> FALSE]))
         ELSE [ok |-> FALSE, items |-> acc]
    ELSE IF Head(p) \in {"[", "]"}
    THEN [ok |-> FALSE, items |-> acc]
    ELSE class_items(Tail(p), Append(acc, [c |-> Head(p), dash |-> Head(p) = "-"]))

\* whether a range x-y starts at item i: a '-' between two items
range_at(items, i) ==
    i + 2 <= Len(items) /\ items[i + 1].dash /\ ~items[i].dash

\* The class the engine builds from the items, read left to right:
\* [ok |-> whether the class is accepted, members |-> the characters it
\* matches].  A class with no item is rejected, and so is a range whose
\* start lies after its end.
RECURSIVE class_from(_, _)
class_from(items, i) ==
    IF i > Len(items) THEN [ok |-> TRUE, members |-> {}]
    ELSE IF range_at(items, i)
    THEN LET rest == class_from(items, i + 3)
             lo == code_point(items[i].c)
             hi == code_point(items[i + 2].c)
         IN  [ok |-> lo <= hi /\ rest.ok,
              members |-> {x \in ClassChars : lo <= code_point(x) /\ code_point(x) <= hi}
                              \cup rest.members]
    ELSE LET rest == class_from(items, i + 1)
         IN  [ok |-> rest.ok, members |-> {items[i].c} \cup rest.members]

\* the class "[" content "]" or "[^" content "]"
char_class(content) ==
    LET read == class_items(content, <<>>)
    IN  IF read.ok /\ read.items # <<>>
        THEN class_from(read.items, 1)
        ELSE [ok |-> FALSE, members |-> {}]

compile_unflagged(v) == Regex_new(<<"(", "?", ":">> \o v.string \o <<")">>)

compile(v) == Regex_new(v.source)
regex(v) == compile(v)

\* simple case folding over the characters the model's texts use
fold(c) == IF c = "R" THEN "r" ELSE IF c = "A" THEN "a" ELSE c

\* whether the compiled literal matches text at position i (1-based)
matches_at(re, text, i) ==
    /\ i + Len(re.literal) - 1 <= Len(text)
    /\ \A k \in 1..Len(re.literal) :
          IF re.icase THEN fold(text[i + k - 1]) = fold(re.literal[k])
          ELSE text[i + k - 1] = re.literal[k]

\* Regex::replacen(text, limit, rep): the matches are found left to right,
\* none overlapping the one before; limit = 0 replaces them all, limit = n
\* the first n.  (A literal pattern has no empty match.)
RECURSIVE replacen_from(_, _, _, _, _, _)
replacen_from(re, text, i, limit, done, rep) ==
    IF i > Len(text) \/ (limit > 0 /\ done >= limit)
    THEN SubSeq(text, i, Len(text))
    ELSE IF matches_at(re, text, i)
    THEN rep \o replacen_from(re, text, i + Len(re.literal), limit, done + 1, rep)
    ELSE SubSeq(text, i, i) \o replacen_from(re, text, i + 1, limit, done, rep)

replacen(re, text, limit, rep) == replacen_from(re, text, 1, limit, 0, rep)

\* Regex::replace is replacen with limit 1, Regex::replace_all with limit 0
Regex_replace(re, text, rep) == replacen(re, text, 1, rep)
Regex_replace_all(re, text, rep) == replacen(re, text, 0, rep)

replace_swallowing(v, text, rep) ==
    LET re == compile(v)
    IN  IF re.kind = "Ok"
        THEN [kind |-> "Ok", text |-> Regex_replace(re, text, rep), error |-> NoError]
        ELSE [kind |-> "Ok", text |-> text, error |-> NoError]

\* Verex::replace: try!(self.compile()) returns the Err of compile from
\* replace as it is (From<Error> for Error is the identity) and no String;
\* on Ok the String of Regex::replace is returned.
replace(v, text, rep) ==
    LET re == compile(v)
    IN  IF re.kind = "Ok"
        THEN [kind |-> "Ok", text |-> Regex_replace(re, text, rep), error |-> NoError]
        ELSE IF re.kind = "Err"
        THEN [kind |-> "Err", text |-> <<>>, error |-> re]
        ELSE [kind |-> "Unmodelled", text |-> <<>>, error |-> NoError]

---------------------------------------------------------------------------
(* The callers' inputs.                                                    *)

\* the two builders of a run, named as in the or_expr! example of lib.rs
Builders == {"verex", "sub_verex"}

\* literal arguments: empty, with a '-' between two letters, with
\* metacharacters inside and outside a character class
Literals == { <<>>, <<"a", "-", "c">>, <<"\\", ".">>, <<"^", "]">> }

\* arguments that are regex syntax already
RawStrings == { <<"(", "a", ")", "*">> }
Regexes == { [pattern |-> <<"c", "+">>] }

Exprs(b) ==
    {E_String(x) : x \in RawStrings}
        \cup {E_Verex(o) : o \in Builders \ {b}}
        \cup {E_Regex(r) : r \in Regexes}

Ranges == { << <<"a", "z">> >>, << <<"a", "z">>, <<"A", "Z">> >> }
Counts == {0, 12}
Texts == { <<"f", "o", "o", "b", "a", "r">>, <<"R", "a", "r", "r">> }
\* replacement texts; none holds a '$', so none refers to a group
Reps == { <<"z">> }
\* the text a builder is seeded with by from_str / from_string
Seeds == { <<"r">> }
SubSeed == <<"D", "(", "V", ")", "*", "?">>

\* raw fragments that open a group and do not close it, or close one they
\* did not open
RawFragments == { <<"(", "a">>, <<"b", ")">> }
\* the raw text handed to add(): test_add's "a", and a class escape
AddValues == { <<"a">>, <<"\\", "d">> }
\* the text a session's builder is seeded with
SessionSeed == <<"(", "r">>

\* the strings handed to escape() in SpecEscape
EscAlphabet == MetaChars \cup {"a", "-"}
EscInputs == UNION { [1..k -> EscAlphabet] : k \in 0..MaxLen }

---------------------------------------------------------------------------
(* The calls.  One action per public method of Verex; builder b is the     *)
(* receiver.                                                               *)

NoCall ==
    [b |-> "", op |-> "", lit |-> <<>>, expr |-> E_String(<<>>), enable |-> FALSE,
     n |-> 0, m |-> 0, pairs |-> <<>>, text |-> <<>>, rep |-> <<>>]

\* the mutation of builder b into v2 by the call `entry`
Record(b, v2, entry) ==
    /\ Len(hist) < MaxOps
    /\ builders' = [builders EXCEPT ![b] = v2]
    /\ hist' = Append(hist, [entry EXCEPT !.b = b])
    /\ snaps' = Append(snaps, builders)

Call(b, v2, entry) ==
    /\ Record(b, v2, entry)
    /\ UNCHANGED <<result, escIn, escCur, escPass, chain>>

Any(b) == \E chars \in Literals :
    Call(b, any(builders[b], chars), [NoCall EXCEPT !.op = "any", !.lit = chars])

AnyOf(b) == \E chars \in Literals :
    Call(b, any_of(builders[b], chars), [NoCall EXCEPT !.op = "any_of", !.lit = chars])

Anything(b) == Call(b, anything(builders[b]), [NoCall EXCEPT !.op = "anything"])

AnythingBut(b) == \E chars \in Literals :
    Call(b, anything_but(builders[b], chars),
         [NoCall EXCEPT !.op = "anything_but", !.lit = chars])

Br(b) == Call(b, br(builders, builders[b]), [NoCall EXCEPT !.op = "br"])

Capture(b) == \E val \in Literals :
    Call(b, capture(builders[b], val), [NoCall EXCEPT !.op = "capture", !.lit = val])

CaptureExpr(b) == \E e \in Exprs(b) :
    Call(b, capture_expr(builders, builders[b], e),
         [NoCall EXCEPT !.op = "capture_expr", !.expr = e])

DigitOp(b) == Call(b, digit(builders[b]), [NoCall EXCEPT !.op = "digit"])

EndOfLine(b) == Call(b, end_of_line(builders[b]), [NoCall EXCEPT !.op = "end_of_line"])

Find(b) == \E val \in Literals :
    Call(b, find(builders[b], val), [NoCall EXCEPT !.op = "find", !.lit = val])

FindExpr(b) == \E e \in Exprs(b) :
    Call(b, find_expr(builders, builders[b], e),
         [NoCall EXCEPT !.op = "find_expr", !.expr = e])

LineBreak(b) ==
    Call(b, line_break(builders, builders[b]), [NoCall EXCEPT !.op = "line_break"])

Maybe(b) == \E val \in Literals :
    Call(b, maybe(builders[b], val), [NoCall EXCEPT !.op = "maybe", !.lit = val])

MaybeExpr(b) == \E e \in Exprs(b) :
    Call(b, maybe_expr(builders, builders[b], e),
         [NoCall EXCEPT !.op = "maybe_expr", !.expr = e])

Or(b) == Call(b, or(builders[b]), [NoCall EXCEPT !.op = "or"])

OrFind(b) == \E val \in Literals :
    Call(b, or_find(builders[b], val), [NoCall EXCEPT !.op = "or_find", !.lit = val])

OrFindExpr(b) == \E e \in Exprs(b) :
    Call(b, or_find_expr(builders, builders[b], e),
         [NoCall EXCEPT !.op = "or_find_expr", !.expr = e])

Range(b) == \E pairs \in Ranges :
    Call(b, range(builders[b], pairs), [NoCall EXCEPT !.op = "range", !.pairs = pairs])

RepeatN(b) == \E n \in Counts :
    Call(b, repeat_n(builders[b], n), [NoCall EXCEPT !.op = "repeat_n", !.n = n])

RepeatNToM(b) == \E n \in Counts, m \in Counts :
    Call(b, repeat_n_to_m(builders[b], n, m),
         [NoCall EXCEPT !.op = "repeat_n_to_m", !.n = n, !.m = m])

RepeatOnceOrMore(b) ==
    Call(b, repeat_once_or_more(builders[b]), [NoCall EXCEPT !.op = "repeat_once_or_more"])

RepeatPrevious(b) == \E n \in Counts :
    Call(b, repeat_previous(builders[b], n),
         [NoCall EXCEPT !.op = "repeat_previous", !.n = n])

RepeatZeroOrMore(b) ==
    Call(b, repeat_zero_or_more(builders[b]), [NoCall EXCEPT !.op = "repeat_zero_or_more"])

\* replace takes &self: the builder is not written, the Result is returned
Replace(b) == \E text \in Texts, rep \in Reps :
    /\ Record(b, builders[b],
              [NoCall EXCEPT !.op = "replace", !.text = text, !.rep = rep])
    /\ result' = replace(builders[b], text, rep)
    /\ UNCHANGED <<escIn, escCur, escPass, chain>>

SearchOneLine(b) == \E enable \in BOOLEAN :
    Call(b, search_one_line(builders[b], enable),
         [NoCall EXCEPT !.op = "search_one_line", !.enable = enable])

Something(b) == Call(b, something(builders[b]), [NoCall EXCEPT !.op = "something"])

SomethingBut(b) == \E chars \in Literals :
    Call(b, something_but(builders[b], chars),
         [NoCall EXCEPT !.op = "something_but", !.lit = chars])

StartOfLine(b) ==
    Call(b, start_of_line(builders[b]), [NoCall EXCEPT !.op = "start_of_line"])

Tab(b) == Call(b, tab(builders[b]), [NoCall EXCEPT !.op = "tab"])

Then(b) == \E val \in Literals :
    Call(b, then(builders[b], val), [NoCall EXCEPT !.op = "then", !.lit = val])

WithAnyCase(b) == \E enable \in BOOLEAN :
    Call(b, with_any_case(builders[b], enable),
         [NoCall EXCEPT !.op = "with_any_case", !.enable = enable])

Word(b) == Call(b, word(builders, builders[b]), [NoCall EXCEPT !.op = "word"])

---------------------------------------------------------------------------
(* Spec: one builder driven through the public methods that build the     *)
(* pattern, and replace; a second builder stands by as the argument of     *)
(* Expression::Verex.  The other queries are driven in SpecCompile.        *)

NoResult == [kind |-> "None", text |-> <<>>, error |-> NoError]

\* the state after construction: Verex::new(), Verex::from_str(s) or
\* Verex::from_string(s)
Constructed == {new} \cup {from_str(s) : s \in Seeds} \cup {from_string(s) : s \in Seeds}

InitBuilders ==
    /\ builders \in [Builders -> Constructed \cup {from_str(SubSeed)}]
    /\ builders["verex"] \in Constructed
    /\ builders["sub_verex"] = from_str(SubSeed)
    /\ hist = <<>>
    /\ snaps = <<>>
    /\ result = NoResult

InitEscapeIdle ==
    /\ escIn = <<>>
    /\ escCur = <<>>
    /\ escPass = 0

Init ==
    /\ InitBuilders
    /\ InitEscapeIdle
    /\ chain = <<>>

PublicCall(b) ==
    \/ Any(b) \/ AnyOf(b) \/ Anything(b) \/ AnythingBut(b) \/ Br(b)
    \/ Capture(b) \/ CaptureExpr(b) \/ DigitOp(b) \/ EndOfLine(b)
    \/ Find(b) \/ FindExpr(b) \/ LineBreak(b) \/ Maybe(b) \/ MaybeExpr(b)
    \/ Or(b) \/ OrFind(b) \/ OrFindExpr(b) \/ Range(b) \/ RepeatN(b)
    \/ RepeatNToM(b) \/ RepeatOnceOrMore(b) \/ RepeatPrevious(b)
    \/ RepeatZeroOrMore(b) \/ Replace(b) \/ SearchOneLine(b) \/ Something(b)
    \/ SomethingBut(b) \/ StartOfLine(b) \/ Tab(b) \/ Then(b)
    \/ WithAnyCase(b) \/ Word(b)

Next == PublicCall("verex")

Spec == Init /\ [][Next]_vars

---------------------------------------------------------------------------
(* SpecExpr: both builders are driven, each through the modifier calls,    *)
(* find and the calls that take an Expression, so that one builder's       *)
(* source reaches the other as Expression::Verex.                          *)

NextExpr ==
    \E b \in Builders :
        \/ WithAnyCase(b) \/ SearchOneLine(b) \/ Find(b)
        \/ FindExpr(b) \/ CaptureExpr(b) \/ MaybeExpr(b) \/ OrFindExpr(b)

SpecExpr == Init /\ [][NextExpr]_vars

---------------------------------------------------------------------------
(* SpecEscape: escape() on every string of EscInputs, one pair of          *)
(* ESCAPE_PAIRS per step, as the loop of mod.rs lines 61-64 runs.          *)

InitIdleBuilders ==
    /\ builders = [b \in Builders |-> new]
    /\ hist = <<>>
    /\ snaps = <<>>
    /\ result = NoResult

InitEscape ==
    /\ InitIdleBuilders
    /\ chain = <<>>
    /\ escIn \in EscInputs
    /\ escCur = escIn
    /\ escPass = 0

EscapeStep ==
    /\ escPass < Len(ESCAPE_PAIRS)
    /\ escCur' = replace_all(ESCAPE_PAIRS[escPass + 1], escCur)
    /\ escPass' = escPass + 1
    /\ UNCHANGED <<builders, hist, snaps, result, escIn, chain>>

SpecEscape == InitEscape /\ [][EscapeStep]_vars

---------------------------------------------------------------------------
(* SpecOr: a chain of alternatives on a new builder, as the or! and        *)
(* or_expr! macros of lib.rs lines 209-237 build it: find or find_expr     *)
(* first, then or_find / or_find_expr, or the two calls or() and find.     *)
(* chain records each call and the text it was handed, as it reaches the   *)
(* fragment.                                                               *)

Alternatives(c) == Cardinality({k \in 1..Len(c) : c[k].op # "or"})
OrPending(c) == c # <<>> /\ c[Len(c)].op = "or"

ChainCall(v2, op, text) ==
    /\ builders' = [builders EXCEPT !["verex"] = v2]
    /\ chain' = Append(chain, [op |-> op, text |-> text])
    /\ UNCHANGED <<hist, snaps, result, escIn, escCur, escPass>>

ChainFind ==
    /\ chain = <<>> \/ OrPending(chain)
    /\ Alternatives(chain) < MaxChain
    /\ \E val \in Literals :
          ChainCall(find(builders["verex"], val), "find", escape(val))

ChainFindExpr ==
    /\ chain = <<>> \/ OrPending(chain)
    /\ Alternatives(chain) < MaxChain
    /\ \E e \in Exprs("verex") :
          ChainCall(find_expr(builders, builders["verex"], e), "find_expr",
                    match_expr(builders, e))

ChainOr ==
    /\ chain # <<>> /\ ~OrPending(chain)
    /\ Alternatives(chain) < MaxChain
    /\ ChainCall(or(builders["verex"]), "or", <<>>)

ChainOrFind ==
    /\ chain # <<>> /\ ~OrPending(chain)
    /\ Alternatives(chain) < MaxChain
    /\ \E val \in Literals :
          ChainCall(or_find(builders["verex"], val), "or_find", escape(val))

ChainOrFindExpr ==
    /\ chain # <<>> /\ ~OrPending(chain)
    /\ Alternatives(chain) < MaxChain
    /\ \E e \in Exprs("verex") :
          ChainCall(or_find_expr(builders, builders["verex"], e), "or_find_expr",
                    match_expr(builders, e))

InitOr ==
    /\ builders = [b \in Builders |-> IF b = "verex" THEN new ELSE from_str(SubSeed)]
    /\ hist = <<>>
    /\ snaps = <<>>
    /\ result = NoResult
    /\ InitEscapeIdle
    /\ chain = <<>>

NextOr == ChainFind \/ ChainFindExpr \/ ChainOr \/ ChainOrFind \/ ChainOrFindExpr

SpecOr == InitOr /\ [][NextOr]_vars

---------------------------------------------------------------------------
(* SpecCompile: a session on one builder, as the first example of lib.rs   *)
(* lines 16-40 runs it: calls that build the pattern and calls that query  *)
(* the builder (compile, regex, replace, source, raw, value), in any        *)
(* order, up to MaxSession calls.  The raw fragments make sources the       *)
(* engine rejects.  result holds what the last query returned.              *)

\* a call on &mut self: the builder is written, the call returns the builder
SessionBuild(v2, entry) ==
    /\ Len(hist) < MaxSession
    /\ builders' = [builders EXCEPT !["verex"] = v2]
    /\ hist' = Append(hist, [entry EXCEPT !.b = "verex"])
    /\ snaps' = Append(snaps, builders)
    /\ UNCHANGED <<result, escIn, escCur, escPass, chain>>

\* a call on &self: no field of the builder can be written, the call
\* returns ret
SessionQuery(entry, ret) ==
    /\ Len(hist) < MaxSession
    /\ hist' = Append(hist, [entry EXCEPT !.b = "verex"])
    /\ snaps' = Append(snaps, builders)
    /\ result' = ret
    /\ UNCHANGED <<builders, escIn, escCur, escPass, chain>>

SessionFind ==
    SessionBuild(find(builders["verex"], <<"a">>),
                 [NoCall EXCEPT !.op = "find", !.lit = <<"a">>])

SessionOrFind ==
    SessionBuild(or_find(builders["verex"], <<"b">>),
                 [NoCall EXCEPT !.op = "or_find", !.lit = <<"b">>])

SessionFindExpr == \E raw_text \in RawFragments :
    SessionBuild(find_expr(builders, builders["verex"], E_String(raw_text)),
                 [NoCall EXCEPT !.op = "find_expr", !.expr = E_String(raw_text)])

SessionWithAnyCase == \E enable \in BOOLEAN :
    SessionBuild(with_any_case(builders["verex"], enable),
                 [NoCall EXCEPT !.op = "with_any_case", !.enable = enable])

SessionCompile ==
    SessionQuery([NoCall EXCEPT !.op = "compile"], compile(builders["verex"]))

SessionRegex ==
    SessionQuery([NoCall EXCEPT !.op = "regex"], regex(builders["verex"]))

SessionReplace == \E text \in Texts, rep \in Reps :
    SessionQuery([NoCall EXCEPT !.op = "replace", !.text = text, !.rep = rep],
                 replace(builders["verex"], text, rep))

SessionSource ==
    SessionQuery([NoCall EXCEPT !.op = "source"], source(builders["verex"]))

SessionRaw ==
    SessionQuery([NoCall EXCEPT !.op = "raw"], raw(builders["verex"]))

SessionValue ==
    SessionQuery([NoCall EXCEPT !.op = "value"], value(builders["verex"]))

InitCompile ==
    /\ builders \in [Builders -> {new, from_str(SessionSeed), from_str(SubSeed)}]
    /\ builders["verex"] \in {new, from_str(SessionSeed)}
    /\ builders["sub_verex"] = from_str(SubSeed)
    /\ hist = <<>>
    /\ snaps = <<>>
    /\ result = NoResult
    /\ InitEscapeIdle
    /\ chain = <<>>

NextCompile ==
    \/ SessionFind \/ SessionOrFind \/ SessionFindExpr \/ SessionWithAnyCase
    \/ SessionCompile \/ SessionRegex \/ SessionReplace
    \/ SessionSource \/ SessionRaw \/ SessionValue

SpecCompile == InitCompile /\ [][NextCompile]_vars

---------------------------------------------------------------------------
(* SpecStructural: the fundamental methods called on their own, as the     *)
(* tests of the child module do (test_add, test.rs lines 17-23): add, the  *)
(* open_ and close_ methods, and update_source_with_modifiers; and          *)
(* with_any_case as a public method in between.                            *)

Add(b) == \E val \in AddValues :
    Call(b, add(builders[b], val), [NoCall EXCEPT !.op = "add", !.lit = val])

OpenClass(b) == Call(b, open_class(builders[b]), [NoCall EXCEPT !.op = "open_class"])

CloseClass(b) == Call(b, close_class(builders[b]), [NoCall EXCEPT !.op = "close_class"])

OpenGroup(b) == Call(b, open_group(builders[b]), [NoCall EXCEPT !.op = "open_group"])

OpenCapturingGroup(b) ==
    Call(b, open_capturing_group(builders[b]),
         [NoCall EXCEPT !.op = "open_capturing_group"])

CloseGroup(b) == Call(b, close_group(builders[b]), [NoCall EXCEPT !.op = "close_group"])

OpenQuantifier(b) ==
    Call(b, open_quantifier(builders[b]), [NoCall EXCEPT !.op = "open_quantifier"])

CloseQuantifier(b) ==
    Call(b, close_quantifier(builders[b]), [NoCall EXCEPT !.op = "close_quantifier"])

UpdateSourceWithModifiers(b) ==
    Call(b, update_source_with_modifiers(builders[b]),
         [NoCall EXCEPT !.op = "update_source_with_modifiers"])

NextStructural ==
    \/ Add("verex") \/ OpenClass("verex") \/ CloseClass("verex")
    \/ OpenGroup("verex") \/ OpenCapturingGroup("verex") \/ CloseGroup("verex")
    \/ OpenQuantifier("verex") \/ CloseQuantifier("verex")
    \/ UpdateSourceWithModifiers("verex") \/ WithAnyCase("verex")

SpecStructural == Init /\ [][NextStructural]_vars

---------------------------------------------------------------------------
(* Properties.                                                             *)

\* the builders right after call hist[i]
After(i) == IF i = Len(hist) THEN builders ELSE snaps[i + 1]

\* text s with each character of `set` preceded by one backslash, the other
\* characters unchanged and in place
RECURSIVE Backslashed(_, _)
Backslashed(set, s) ==
    IF s = <<>> THEN <<>>
    ELSE (IF Head(s) \in set THEN <<"\\", Head(s)>> ELSE <<Head(s)>>)
         \o Backslashed(set, Tail(s))

\* "(?" + "i" if CASE_INSENSITIVE + "m" if MULTI_LINE + ":" + fragment + ")"
Wrapped(v) ==
    <<"(", "?">>
        \o (IF v.modifiers \in {CASE_INSENSITIVE, CASE_INSENSITIVE + MULTI_LINE}
            THEN <<"i">> ELSE <<>>)
        \o (IF v.modifiers \in {MULTI_LINE, CASE_INSENSITIVE + MULTI_LINE}
            THEN <<"m">> ELSE <<>>)
        \o <<":">> \o v.string \o <<")">>

\* C1: after construction and after every sequence of public calls, the
\* stored source of each builder is "(?" + flags + ":" + fragment + ")" for
\* its current fragment and modifiers, with i before m.
C1_SourceIsWrappedFragment ==
    \A b \in Builders : source(builders[b]) = Wrapped(builders[b])

\* C1 witness: two calls have set both flags on a seeded builder.
C1_Witness ==
    /\ Len(hist) = 2
    /\ builders["verex"].modifiers = CASE_INSENSITIVE + MULTI_LINE
    /\ source(builders["verex"]) = <<"(", "?", "i", "m", ":", "r", ")">>

\* the 14 characters the Escaper is to escape
C2_Escaped == {"\\", "(", ")", "[", "]", "{", "}", ".", "+", "*", "?", "^", "$", "|"}

\* C2: after the passes made so far, the text is the input with exactly the
\* characters of those passes backslashed once (so no pass touches a
\* backslash another pass put in); after the 14th pass that is every
\* character of the set, and it is what escape() returns; escape("") = "".
C2_EscapeBackslashesEachOnce ==
    /\ escCur = Backslashed({ESCAPE_PAIRS[k].char : k \in 1..escPass}, escIn)
    /\ escPass = 14 =>
          /\ escCur = Backslashed(C2_Escaped, escIn)
          /\ escape(escIn) = escCur
    /\ escape(<<>>) = <<>>

\* C2 witness: the loop has finished on a backslash followed by a bracket.
C2_Witness ==
    /\ escPass = 14
    /\ escIn = <<"\\", "(">>
    /\ escCur = <<"\\", "\\", "\\", "(">>

\* the fixed text a literal-taking call puts before and after its argument
LiteralOps == {"find", "then", "capture", "maybe", "any", "any_of",
               "anything_but", "something_but"}
Before(op) ==
    CASE op \in {"find", "then", "maybe"} -> <<"(", "?", ":">>
      [] op = "capture" -> <<"(">>
      [] op \in {"any", "any_of"} -> <<"[">>
      [] op \in {"anything_but", "something_but"} -> <<"(", "?", ":", "[", "^">>
Behind(op) ==
    CASE op \in {"find", "then", "capture"} -> <<")">>
      [] op = "maybe" -> <<")", "?">>
      [] op \in {"any", "any_of"} -> <<"]">>
      [] op = "anything_but" -> <<"]", "*", ")">>
      [] op = "something_but" -> <<"]", "+", ")">>

\* C3: every literal-taking call appends its fixed delimiters around
\* escape(arg): the argument escaped once, the delimiters as they are.
C3_LiteralCallsAppendEscaped ==
    \A i \in 1..Len(hist) :
        hist[i].op \in LiteralOps =>
            After(i)[hist[i].b].string =
                snaps[i][hist[i].b].string
                    \o Before(hist[i].op) \o escape(hist[i].lit) \o Behind(hist[i].op)

\* C3 witness: find has been called on a new builder with a backslash and a
\* dot.
C3_Witness ==
    /\ Len(hist) = 1
    /\ hist[1].op = "find"
    /\ hist[1].lit = <<"\\", ".">>
    /\ builders["verex"].string = <<"(", "?", ":", "\\", "\\", "\\", ".", ")">>

ExprOps == {"find_expr", "capture_expr", "maybe_expr"}
BeforeExpr(op) == IF op = "capture_expr" THEN <<"(">> ELSE <<"(", "?", ":">>
BehindExpr(op) == IF op = "maybe_expr" THEN <<")", "?">> ELSE <<")">>

\* C4: find_expr, capture_expr and maybe_expr splice their argument in as it
\* is: a String its text, a Verex its whole effective source (wrapper
\* included), a Regex the text it was compiled from; the other builder is
\* left as it was.
C4_ExprCallsSpliceVerbatim ==
    \A i \in 1..Len(hist) :
        hist[i].op \in ExprOps =>
            LET b == hist[i].b
                e == hist[i].expr
                x == CASE e.kind = "String" -> e.str
                       [] e.kind = "Verex"  -> Wrapped(snaps[i][e.verex])
                       [] e.kind = "Regex"  -> e.regex.pattern
            IN  /\ After(i)[b].string =
                       snaps[i][b].string
                           \o BeforeExpr(hist[i].op) \o x \o BehindExpr(hist[i].op)
                /\ \A o \in Builders \ {b} : After(i)[o] = snaps[i][o]

\* C4 witness: find_expr has been handed the other builder after that one
\* was made case-insensitive.
C4_Witness ==
    /\ Len(hist) = 2
    /\ hist[2].op = "find_expr" /\ hist[2].b = "verex"
    /\ hist[2].expr = E_Verex("sub_verex")
    /\ builders["verex"].string =
          <<"(", "?", ":", "(", "?", "i", ":", "D", "(", "V", ")", "*", "?", ")", ")">>

\* the calls that escape their argument, and the calls of no argument that
\* append a fixed fragment
ClassOps == {"any", "any_of", "anything_but", "something_but"}
GroupOps == {"find", "then", "capture", "maybe"}

\* the characters of a text
Chars(s) == {s[k] : k \in 1..Len(s)}

\* C5: on a builder that starts empty and is driven through literal-taking
\* calls only, every literal reaches the pattern well-formed and literally:
\* the class of any, any_of, anything_but and something_but is accepted by
\* the engine and holds the characters of the literal and no other, and the
\* text in the group of find, then, capture and maybe reads back as the
\* literal (the empty group of an empty literal is not judged).
C5_LiteralsAreTakenLiterally ==
    (/\ hist # <<>>
     /\ snaps[1]["verex"] = new
     /\ \A i \in 1..Len(hist) : hist[i].op \in ClassOps \cup GroupOps)
    => \A i \in 1..Len(hist) :
          LET b == hist[i].b
              old == snaps[i][b].string
              now == After(i)[b].string
              put == SubSeq(now, Len(old) + Len(Before(hist[i].op)) + 1,
                            Len(now) - Len(Behind(hist[i].op)))
          IN  IF hist[i].op \in ClassOps
              THEN /\ char_class(put).ok
                   /\ char_class(put).members = Chars(hist[i].lit)
              ELSE hist[i].lit # <<>> =>
                      literal_text(put, 0, TRUE, <<>>) = [ok |-> TRUE, text |-> hist[i].lit]

\* the last call and the builder it was made on, before the call
LastCall == hist[Len(hist)]
LastBefore == snaps[Len(hist)][LastCall.b]

\* the places of text where the compiled literal re matches
MatchesOf(re, text) == {k \in 1..Len(text) : matches_at(re, text, k)}
Least(S) == CHOOSE k \in S : \A j \in S : k <= j

\* C6: replace returns the text with every non-overlapping match of the
\* compiled source replaced, not only the first one.
C6_ReplaceReplacesEveryMatch ==
    (hist # <<>> /\ LastCall.op = "replace" /\ result.kind = "Ok") =>
        result.text = Regex_replace_all(compile(LastBefore), LastCall.text, LastCall.rep)

\* What replace returns instead (Regex::replace, not Regex::replace_all):
\* the text with the first, leftmost match replaced and every later match
\* left as it is; a text with no match is returned unchanged.
ReplaceReplacesFirstMatch ==
    (hist # <<>> /\ LastCall.op = "replace" /\ result.kind = "Ok") =>
        LET re == compile(LastBefore)
            text == LastCall.text
            at == MatchesOf(re, text)
        IN  IF at = {} THEN result.text = text
            ELSE result.text =
                    SubSeq(text, 1, Least(at) - 1) \o LastCall.rep
                        \o SubSeq(text, Least(at) + Len(re.literal), Len(text))

\* C7, amended: line_break and br append "(?:" + "\n" + "|" + "(?:" +
\* "\r\n" + ")" + ")": the second alternative sits in a group of its own.
C7_LineBreakNestsSecondAlternative ==
    \A i \in 1..Len(hist) :
        hist[i].op \in {"line_break", "br"} =>
            After(i)[hist[i].b].string =
                snaps[i][hist[i].b].string
                    \o <<"(", "?", ":", "\\", "n", "|",
                         "(", "?", ":", "\\", "r", "\\", "n", ")", ")">>

\* C7 witness: br has been called on a new builder.
C7_Witness ==
    /\ Len(hist) = 1 /\ hist[1].op = "br"
    /\ source(builders["verex"]) =
          <<"(", "?", ":", "(", "?", ":", "\\", "n", "|",
            "(", "?", ":", "\\", "r", "\\", "n", ")", ")", ")">>

\* C7, as claimed: line_break and br append "(?:" + "\n" + "|" + "\r\n" +
\* ")", one group and no group inside it.
C7_LineBreakIsOneFlatGroup ==
    \A i \in 1..Len(hist) :
        hist[i].op \in {"line_break", "br"} =>
            After(i)[hist[i].b].string =
                snaps[i][hist[i].b].string
                    \o <<"(", "?", ":", "\\", "n", "|", "\\", "r", "\\", "n", ")">>

\* the search_one_line calls made on builder b so far
OneLineCalls(b) ==
    {i \in 1..Len(hist) : hist[i].op = "search_one_line" /\ hist[i].b = b}
Greatest(S) == CHOOSE k \in S : \A j \in S : j <= k

\* whether the flag letters of the source hold letter c
HasFlagLetter(v, c) ==
    \E k \in 1..Len(flag_letters(source(v))) : flag_letters(source(v))[k] = c

\* C8: search_one_line(true) removes MULTI_LINE and search_one_line(false)
\* sets it: the source carries the letter m exactly when the most recent
\* search_one_line call was made with false; the call changes neither
\* CASE_INSENSITIVE nor the fragment.
C8_SearchOneLineIsInverted ==
    \A b \in Builders :
        /\ HasFlagLetter(builders[b], "m") <=>
              (OneLineCalls(b) # {} /\ ~hist[Greatest(OneLineCalls(b))].enable)
        /\ \A i \in OneLineCalls(b) :
              /\ contains(After(i)[b].modifiers, MULTI_LINE) = ~hist[i].enable
              /\ contains(After(i)[b].modifiers, CASE_INSENSITIVE)
                    = contains(snaps[i][b].modifiers, CASE_INSENSITIVE)
              /\ After(i)[b].string = snaps[i][b].string

\* C8 witness: search_one_line(false) put the m in, search_one_line(true)
\* took it out again.
C8_Witness ==
    /\ Len(hist) = 2
    /\ hist[1].op = "search_one_line" /\ ~hist[1].enable
    /\ hist[2].op = "search_one_line" /\ hist[2].enable
    /\ source(snaps[2]["verex"]) = <<"(", "?", "m", ":", "r", ")">>
    /\ source(builders["verex"]) = <<"(", "?", ":", "r", ")">>

\* C9: on a builder whose CASE_INSENSITIVE flag is unset, with_any_case(true)
\* followed by with_any_case(false) gives back the fragment, the modifiers
\* and the source: for the pair of calls made in a run, and for the pair
\* applied to every builder a run reaches.
C9_AnyCaseRoundTrip ==
    /\ \A i \in 1..(Len(hist) - 1) :
          (/\ hist[i].op = "with_any_case" /\ hist[i].enable
           /\ hist[i + 1].op = "with_any_case" /\ ~hist[i + 1].enable
           /\ hist[i + 1].b = hist[i].b
           /\ ~contains(snaps[i][hist[i].b].modifiers, CASE_INSENSITIVE))
          => After(i + 1)[hist[i].b] = snaps[i][hist[i].b]
    /\ \A b \in Builders :
          ~contains(builders[b].modifiers, CASE_INSENSITIVE) =>
              with_any_case(with_any_case(builders[b], TRUE), FALSE) = builders[b]

\* C9 witness: the pair of calls has been made on a new builder, which was
\* case-insensitive in between.
C9_Witness ==
    /\ Len(hist) = 2
    /\ hist[1].op = "with_any_case" /\ hist[1].enable
    /\ hist[2].op = "with_any_case" /\ ~hist[2].enable
    /\ snaps[1]["verex"] = new
    /\ source(snaps[2]["verex"]) = <<"(", "?", "i", ":", ")">>
    /\ builders["verex"] = new

\* the text a chain of calls is to leave in the fragment: "(?:" + text + ")"
\* for find and find_expr, "|" for or, "|" + "(?:" + text + ")" for or_find
\* and or_find_expr
RECURSIVE ChainText(_)
ChainText(c) ==
    IF c = <<>> THEN <<>>
    ELSE (CASE Head(c).op \in {"find", "find_expr"} ->
                  <<"(", "?", ":">> \o Head(c).text \o <<")">>
            [] Head(c).op = "or" -> <<"|">>
            [] Head(c).op \in {"or_find", "or_find_expr"} ->
                  <<"|", "(", "?", ":">> \o Head(c).text \o <<")">>)
         \o ChainText(Tail(c))

\* C10: or_find(v) leaves what or() followed by find(v) leaves, the fragment
\* so far + "|" + "(?:" + escape(v) + ")" (or_find_expr likewise, with the
\* unescaped text), so a chain find(a1).or_find(a2)...or_find(an) leaves
\* "(?:a1)|(?:a2)|...|(?:an)" in call order, wrapped into the source.
C10_OrFindIsOrThenFind ==
    /\ builders["verex"].string = ChainText(chain)
    /\ source(builders["verex"]) = <<"(", "?", ":">> \o ChainText(chain) \o <<")">>
    /\ \A val \in Literals :
          or_find(builders["verex"], val).string =
              builders["verex"].string \o <<"|", "(", "?", ":">> \o escape(val) \o <<")">>

\* C10 witness: find and two or_find calls have built three alternatives.
C10_Witness ==
    /\ Len(chain) = 3
    /\ chain[1].op = "find" /\ chain[2].op = "or_find" /\ chain[3].op = "or_find"
    /\ builders["verex"].string =
          <<"(", "?", ":", "a", "-", "c", ")", "|", "(", "?", ":", "\\", "\\", "\\", ".", ")",
            "|", "(", "?", ":", ")">>

\* the calls that compile the source
CompileOps == {"compile", "regex"}

\* the fragment a building call of a session appends to
Appended(entry) ==
    CASE entry.op = "find" -> <<"(", "?", ":">> \o escape(entry.lit) \o <<")">>
      [] entry.op = "or_find" -> <<"|", "(", "?", ":">> \o escape(entry.lit) \o <<")">>
      [] entry.op = "find_expr" -> <<"(", "?", ":">> \o entry.expr.str \o <<")">>
      [] OTHER -> <<>>

\* C11: compiling is no terminal state.  Every compile() or regex(), the
\* first one and each later one, hands the engine the effective source of
\* the fragment and modifiers as they are at that call, whatever was
\* compiled before; it leaves the builder as it was; and the building call
\* that follows it acts on that builder: it appends its fragment and the
\* source follows.
C11_CompileIsNotTerminal ==
    /\ (hist # <<>> /\ LastCall.op \in CompileOps) =>
          /\ result = Regex_new(Wrapped(builders["verex"]))
          /\ result.pattern = Wrapped(LastBefore)
    /\ \A i \in 1..Len(hist) :
          hist[i].op \in CompileOps =>
              /\ After(i) = snaps[i]
              /\ (i < Len(hist) /\ hist[i + 1].op \in {"find", "or_find", "find_expr"}) =>
                    /\ After(i + 1)["verex"].string =
                          snaps[i]["verex"].string \o Appended(hist[i + 1])
                    /\ source(After(i + 1)["verex"]) = Wrapped(After(i + 1)["verex"])

\* C11 witness: the crate's first example, with the flag set in between:
\* find("a"), compile, with_any_case(true), compile; the second Regex is
\* compiled from the source of the second call.
C11_Witness ==
    /\ Len(hist) = 4
    /\ snaps[1]["verex"] = new
    /\ hist[1].op = "find" /\ hist[2].op = "compile"
    /\ hist[3].op = "with_any_case" /\ hist[3].enable /\ hist[4].op = "compile"
    /\ result.kind = "Ok"
    /\ result.pattern = <<"(", "?", "i", ":", "(", "?", ":", "a", ")", ")">>
    /\ result.icase

\* a text with no backslash and no bracket in which the "(" and the ")" do
\* not pair up: a pattern with an unmatched group
Count(s, c) == Cardinality({k \in 1..Len(s) : s[k] = c})
Unmatched(s) ==
    /\ \A k \in 1..Len(s) : s[k] \notin {"\\", "[", "]"}
    /\ Count(s, "(") # Count(s, ")")

\* a Verex struct: its three fields, the flags within the two bits
IsVerex(v) ==
    /\ DOMAIN v = {"string", "modifiers", "source"}
    /\ v.modifiers \in 0..(MULTI_LINE + CASE_INSENSITIVE)

FallibleOps == {"compile", "regex", "replace"}

\* C12: on a source with an unmatched group compile() and regex() return
\* Err with the engine's error, as a value; replace() returns that same
\* error and no text; the failed call leaves fragment, modifiers and source
\* as they were, and the building call after it appends as usual.  No other
\* call can fail: a building call returns the builder, source(), raw() and
\* value() return a text.
C12_CompileErrorIsAValue ==
    /\ (hist # <<>> /\ LastCall.op \in CompileOps /\ Unmatched(source(LastBefore))) =>
          /\ result.kind = "Err"
          /\ result.pattern = source(LastBefore)
    /\ (hist # <<>> /\ LastCall.op = "replace" /\ Unmatched(source(LastBefore))) =>
          /\ result.kind = "Err"
          /\ result.error = compile(LastBefore)
          /\ result.error.kind = "Err"
          /\ result.text = <<>>
    /\ \A i \in 1..Len(hist) :
          IF hist[i].op \in FallibleOps
          THEN Unmatched(source(snaps[i]["verex"])) =>
                  /\ After(i) = snaps[i]
                  /\ (i < Len(hist) /\ hist[i + 1].op \in {"find", "or_find", "find_expr"}) =>
                        After(i + 1)["verex"].string =
                            snaps[i]["verex"].string \o Appended(hist[i + 1])
          ELSE IF hist[i].op \in {"source", "raw", "value"}
          THEN After(i) = snaps[i]
          ELSE IsVerex(After(i)["verex"])
    /\ (hist # <<>> /\ LastCall.op \in {"source", "raw", "value"}) =>
          result = Wrapped(LastBefore)

\* C12 witness: a raw fragment opened a group, compile failed, a second raw
\* fragment closed the group and compile succeeded.
C12_Witness ==
    /\ Len(hist) = 4
    /\ snaps[1]["verex"] = new
    /\ hist[1].op = "find_expr" /\ hist[1].expr = E_String(<<"(", "a">>)
    /\ hist[2].op = "compile" /\ compile(snaps[2]["verex"]).kind = "Err"
    /\ hist[3].op = "find_expr" /\ hist[3].expr = E_String(<<"b", ")">>)
    /\ hist[4].op = "compile"
    /\ result.kind = "Ok" /\ result.literal = <<"a", "b">>

StructuralOps == {"add", "open_class", "close_class", "open_group",
                  "open_capturing_group", "close_group", "open_quantifier",
                  "close_quantifier"}

\* the text a structural call is to append
StructuralText(entry) ==
    CASE entry.op = "add" -> entry.lit
      [] entry.op = "open_class" -> <<"[">>
      [] entry.op = "close_class" -> <<"]">>
      [] entry.op = "open_group" -> <<"(", "?", ":">>
      [] entry.op = "open_capturing_group" -> <<"(">>
      [] entry.op = "close_group" -> <<")">>
      [] entry.op = "open_quantifier" -> <<"{">>
      [] entry.op = "close_quantifier" -> <<"}">>

\* C13, amended: every structural call returns the same builder and appends
\* its text to the fragment, and that is all it does: the modifiers and the
\* stored source stay as they were, so source() still returns the text from
\* before the call.  The source follows the fragment when
\* update_source_with_modifiers is called, as every public method does last.
C13_StructuralOpsLeaveSourceStale ==
    \A i \in 1..Len(hist) :
        LET b == hist[i].b
        IN  /\ \A o \in Builders \ {b} : After(i)[o] = snaps[i][o]
            /\ hist[i].op \in StructuralOps =>
                  /\ After(i)[b].string = snaps[i][b].string \o StructuralText(hist[i])
                  /\ After(i)[b].modifiers = snaps[i][b].modifiers
                  /\ source(After(i)[b]) = source(snaps[i][b])
                  /\ source(After(i)[b]) # Wrapped(After(i)[b])
            /\ hist[i].op = "update_source_with_modifiers" =>
                  /\ After(i)[b].string = snaps[i][b].string
                  /\ After(i)[b].modifiers = snaps[i][b].modifiers
                  /\ source(After(i)[b]) = Wrapped(After(i)[b])

\* C13 witness: test_add.  After add("a") on a new builder the source was
\* still "(?:)"; update_source_with_modifiers made it "(?:a)".
C13_Witness ==
    /\ Len(hist) = 2
    /\ snaps[1]["verex"] = new
    /\ hist[1].op = "add" /\ hist[1].lit = <<"a">>
    /\ snaps[2]["verex"].string = <<"a">>
    /\ source(snaps[2]["verex"]) = <<"(", "?", ":", ")">>
    /\ hist[2].op = "update_source_with_modifiers"
    /\ source(builders["verex"]) = <<"(", "?", ":", "a", ")">>

\* C13, as claimed: every structural call appends its text and recomputes
\* the source, so that source() shows the appended text right after the
\* structural call alone.
C13_StructuralOpsRecomputeSource ==
    \A i \in 1..Len(hist) :
        hist[i].op \in StructuralOps =>
            /\ After(i)[hist[i].b].string =
                   snaps[i][hist[i].b].string \o StructuralText(hist[i])
            /\ source(After(i)[hist[i].b]) = Wrapped(After(i)[hist[i].b])

\* whether text s is the beginning of text t
IsPrefix(s, t) == Len(s) <= Len(t) /\ SubSeq(t, 1, Len(s)) = s

\* the calls that set or clear a flag
ModifierOps == {"with_any_case", "search_one_line"}

\* C14: the fragment is append-only.  For every call, the fragment before
\* the call is the beginning of the fragment after it; a call that appends
\* (any call but with_any_case and search_one_line) leaves the flags as they
\* were, and those two leave the fragment as it was.
C14_FragmentIsAppendOnly ==
    \A i \in 1..Len(hist) :
        LET old == snaps[i][hist[i].b]
            now == After(i)[hist[i].b]
        IN  /\ IsPrefix(old.string, now.string)
            /\ IF hist[i].op \in ModifierOps
               THEN now.string = old.string
               ELSE now.modifiers = old.modifiers

\* C14 witness: range and repeat_n_to_m have appended one after the other
\* to the fragment of a seeded builder.
C14_Witness ==
    /\ Len(hist) = 2
    /\ snaps[1]["verex"].string = <<"r">>
    /\ hist[1].op = "range" /\ hist[2].op = "repeat_n_to_m"
    /\ builders["verex"].string =
          <<"r", "[", "a", "-", "z", "]", "{", "0", ",", "1", "2", "}">>

QueryOps == {"replace", "compile", "regex", "source", "raw", "value"}

\* C15: replace, compile, regex, source, raw and value are queries: each
\* call, the first and every repeated one, on a source the engine accepts
\* or rejects, leaves fragment, modifiers and source of every builder as
\* they were (replace returns a new text and does not touch the fragment);
\* and source(), raw() and value() return the one same text, the stored
\* source.
C15_QueriesArePure ==
    /\ \A i \in 1..Len(hist) :
          hist[i].op \in QueryOps => After(i) = snaps[i]
    /\ (hist # <<>> /\ LastCall.op \in {"source", "raw", "value"}) =>
          result = LastBefore.source
    /\ \A b \in Builders :
          /\ raw(builders[b]) = source(builders[b])
          /\ value(builders[b]) = source(builders[b])
          /\ source(builders[b]) = Wrapped(builders[b])

\* C15 witness: on a source the engine rejects, replace failed and compile
\* failed, and raw() and source() returned the same text after them.
C15_Witness ==
    /\ Len(hist) = 4
    /\ hist[1].op = "replace" /\ hist[2].op = "compile"
    /\ hist[3].op = "raw" /\ hist[4].op = "source"
    /\ compile(builders["verex"]).kind = "Err"
    /\ builders = snaps[1]
    /\ result = <<"(", "?", ":", "(", "r", ")">>

=============================================================================
